---- MODULE Spec2Model ----
(***************************************************************************)
(* Retry / circuit-breaker execution wrappers of autonomos-lab:            *)
(*   RetryHandler      (src/api/retry_handler.py)                          *)
(*   FailoverStrategy  (src/core/failover_strategy.py)                     *)
(*                                                                         *)
(* Time is observed at integer ticks (one tick = one second of             *)
(* time.time()).  Delays are computed in thousandths of a tick, so that    *)
(* the 1.618 factor of the FIBONACCI strategy is a fixed-point number.     *)
(* Exceptions are named by their class; IsException separates subclasses   *)
(* of Exception from bare BaseException subclasses.                        *)
(***************************************************************************)
EXTENDS Integers, Sequences, FiniteSets, TLC

(* ------------------------------ bounds -------------------------------- *)
MaxTime == 4
NumCallers == 2
MaxRetries == 3
MaxThreshold == 5
BaseDelay == 1
MaxDelay == 2
ResetTimeout == 2
MaxFailures == 2

(* jitter = 0.1, the constructor's default, in 1/Scale *)
Jitter == 100

(* circuit_failure_threshold = 5, the constructor's default *)
DefaultThreshold == 5

(* 1.618 of the FIBONACCI strategy, as Phi / Scale *)
Scale == 1000
Phi == 1618

Callers == 1..NumCallers
Keys == {"a", "b"}
None == -1
NoKey == "-"

(* ---------------------------- exceptions ------------------------------ *)
OpErrors == {"ValueError", "KeyError", "KeyboardInterrupt"}
FallbackErrors == {"FallbackError", "SystemExit"}

IsException(e) == e \in {"ValueError", "KeyError", "FallbackError", "RuntimeError", "RetryHandlerError"}

(* every error is treated as retryable *)
CatchesAll(retry_on, e) == TRUE

(* `except self._retry_on as e`: retry_on is Exception unless configured *)
Catches(retry_on, e) ==
  IF retry_on = "Exception" THEN IsException(e) ELSE e = retry_on

RetryStrategy == {"CONSTANT", "LINEAR", "EXPONENTIAL", "FIBONACCI"}

RECURSIVE Pow(_, _)
Pow(b, n) == IF n = 0 THEN 1 ELSE b * Pow(b, n - 1)

Min(a, b) == IF a <= b THEN a ELSE b
Max(a, b) == IF a >= b THEN a ELSE b
CeilDiv(a, b) == (a + b - 1) \div b

VARIABLES
  executor,            \* which wrapper object has been constructed
  now,                 \* time.time(), in ticks
  config,              \* RetryHandler constructor arguments
  _failure_count,      \* RetryHandler._failure_count
  _circuit_state,      \* RetryHandler._circuit_state
  _last_failure_time,  \* RetryHandler._last_failure_time
  failures,            \* FailoverStrategy.failures
  last_failure_time,   \* FailoverStrategy.last_failure_time
  circuit_state,       \* FailoverStrategy.circuit_state
  fallback_handlers,   \* keys of FailoverStrategy.fallback_handlers
  pc,                  \* position of each caller inside its call
  frame,               \* locals of each caller's call
  outcome,             \* what each caller's call returned or raised
  streak,              \* per circuit: retryable failures since the last success or reset
  admin,               \* the last reset_circuit or get_circuit_status, until the next call
  calc                 \* one handler's delay settings and the last delay it computed

vars == <<executor, now, config, _failure_count, _circuit_state, _last_failure_time,
          failures, last_failure_time, circuit_state, fallback_handlers,
          pc, frame, outcome, streak, admin, calc>>

rhVars == <<_failure_count, _circuit_state, _last_failure_time>>
foVars == <<failures, last_failure_time, circuit_state, fallback_handlers>>

(* ------------------------- outcomes of a call -------------------------- *)
NoOutcome ==
  [kind |-> "none", value |-> "", type |-> "", origin |-> "", severity |-> "",
   message |-> "", n |-> 0, context |-> {}, last_error |-> ""]

Returned(v) == [NoOutcome EXCEPT !.kind = "return", !.value = v]

(* an exception object raised by the operation or the fallback, passed on as it is *)
Propagated(e, who) == [NoOutcome EXCEPT !.kind = "raise", !.type = e, !.origin = who]

(* RetryHandlerError(message, severity=..., context=...); the number formatted
   into the message is kept apart as n *)
RetryHandlerError(msg, num, sev, ctx) ==
  [NoOutcome EXCEPT !.kind = "raise", !.type = "RetryHandlerError", !.origin = "handler",
                    !.severity = sev, !.message = msg, !.n = num,
                    !.context = IF ctx = "" THEN {} ELSE {"last_error"},
                    !.last_error = ctx]

RuntimeError(msg) ==
  [NoOutcome EXCEPT !.kind = "raise", !.type = "RuntimeError", !.origin = "wrapper",
                    !.message = msg]

NoSnap == [state |-> "", count |-> 0, time |-> None]

NoFrame ==
  [func |-> NoKey, key |-> NoKey, attempt |-> 0, calls |-> 0, fb_calls |-> 0, sleeps |-> 0,
   wake_at |-> 0, current_time |-> 0, entered_at |-> 0, entry |-> NoSnap,
   pre |-> NoSnap, err |-> "", fb_err |-> "", read |-> 0,
   waits |-> <<>>, elapsed |-> <<>>, after |-> NoSnap]

(* what get_circuit_status returns *)
NoReport == [state |-> "", failures |-> 0, last_failure_time |-> None]

NoAdmin ==
  [op |-> "none", key |-> NoKey, before |-> [k \in Keys |-> NoSnap], report |-> NoReport]

(* ----------------------- RetryHandler._calculate_delay ------------------ *)
(* 1.618 ** n in 1/Scale units, rounded down at every factor *)
RECURSIVE PhiPow(_)
PhiPow(n) == IF n = 0 THEN Scale ELSE (PhiPow(n - 1) * Phi) \div Scale

(* lines 85-95: the delay of a strategy before the limit and the jitter;
   base_delay and the result in 1/Scale ticks *)
StrategyDelay(strategy, base_delay, attempt) ==
  CASE strategy = "CONSTANT" -> base_delay
    [] strategy = "LINEAR" -> base_delay * attempt
    [] strategy = "EXPONENTIAL" -> base_delay * Pow(2, attempt - 1)
    [] strategy = "FIBONACCI" -> (base_delay * PhiPow(attempt)) \div Scale
    [] OTHER -> base_delay

(* the limit is never applied *)
ClampNone(delay, max_delay) == delay

(* line 98, delay = min(delay, self._max_delay) *)
Clamp(delay, max_delay) == Min(delay, max_delay)

(* the jitter is taken from the delay before the limit *)
JitterOfRaw(delay, raw, jitter) == (raw * jitter) \div Scale

(* line 101, jitter_amount = delay * self._jitter, delay being the limited
   delay and raw the delay before the limit; jitter in 1/Scale *)
JitterAmount(delay, raw, jitter) == (delay * jitter) \div Scale

(* lines 82-104: the delays _calculate_delay(attempt) can return for a
   handler with these settings, one for each value random.uniform can give *)
DelaysOf(strategy, base_delay, max_delay, jitter, attempt) ==
  LET raw == StrategyDelay(strategy, base_delay, attempt)
      delay == Clamp(raw, max_delay)
      jitter_amount == JitterAmount(delay, raw, jitter)
  IN  { Max(0, delay + j) : j \in (0 - jitter_amount)..jitter_amount }

(* delay before the jitter, in 1/Scale ticks *)
BaseBackoff(strategy, attempt) == StrategyDelay(strategy, BaseDelay * Scale, attempt)

ClampedBackoff(strategy, attempt) == Clamp(BaseBackoff(strategy, attempt), MaxDelay * Scale)

(* the values random.uniform(-jitter_amount, jitter_amount) can add, jitter in 1/Scale *)
_calculate_delay(strategy, jitter, attempt) ==
  DelaysOf(strategy, BaseDelay * Scale, MaxDelay * Scale, jitter, attempt)

(* asyncio.sleep(delay) ends at the first tick at or after its deadline: the
   ticks a sleep of a delay of _calculate_delay can last, from its two ends *)
SleepTicks(strategy, jitter, attempt) ==
  LET delay == ClampedBackoff(strategy, attempt)
      jitter_amount == (delay * jitter) \div Scale
  IN  CeilDiv(Max(0, delay - jitter_amount), Scale)..CeilDiv(Max(0, delay + jitter_amount), Scale)

(* a handler's delay settings, the attempt asked about and the delay returned *)
NoCalc ==
  [strategy |-> "", base_delay |-> 0, max_delay |-> 0, jitter |-> 0,
   attempt |-> 0, delay |-> None]

(* ------------------------------ Init ----------------------------------- *)
Configs ==
  [max_retries : 1..MaxRetries, threshold : 1..MaxThreshold,
   retry_on : {"Exception", "ValueError"},
   strategy : RetryStrategy, jitter : {0, Jitter}]

Init ==
  /\ executor \in {"RetryHandler", "FailoverStrategy"}
  /\ now = 0
  /\ config \in Configs
  /\ executor = "FailoverStrategy" => config = CHOOSE cf \in Configs : TRUE
  /\ _failure_count = 0
  /\ _circuit_state = "CLOSED"
  /\ _last_failure_time = None
  /\ failures = [k \in Keys |-> None]
  /\ last_failure_time = [k \in Keys |-> None]
  /\ circuit_state = [k \in Keys |-> "absent"]
  /\ fallback_handlers = {}
  /\ pc = [c \in Callers |-> "idle"]
  /\ frame = [c \in Callers |-> NoFrame]
  /\ outcome = [c \in Callers |-> NoOutcome]
  /\ streak = [k \in Keys \cup {NoKey} |-> 0]
  /\ admin = NoAdmin
  /\ calc = NoCalc

OthersIdle(c) == \A d \in Callers \ {c} : pc[d] = "idle"

(* --------------------- decisions shared by both wrappers ---------------- *)
(* the circuit opens one failure early *)
ThresholdReachedEarly(count, threshold) == count + 1 >= threshold

(* the circuit never opens *)
ThresholdReachedNever(count, threshold) == FALSE

(* the circuit opens one failure late *)
ThresholdReachedLate(count, threshold) == count > threshold

(* retry_handler.py:154, failover_strategy.py:127 *)
ThresholdReached(count, threshold) == count >= threshold

(* only the first failure of a circuit sets its last_failure_time *)
FailureTimeKept(t, last) == IF last = None THEN t ELSE last

(* retry_handler.py:156, self._last_failure_time = time.time();
   failover_strategy.py:121, self.last_failure_time[key] = current_time *)
FailureTime(t, last) == t

(* a call made at exactly reset_timeout after the failure is still rejected *)
TimeoutElapsedStrict(t, last, timeout) == t - last > timeout

(* an OPEN circuit admits a probe at once *)
TimeoutAlwaysElapsed(t, last, timeout) == TRUE

(* an OPEN circuit never admits a probe *)
TimeoutNeverElapsed(t, last, timeout) == FALSE

(* retry_handler.py:126 (failover_strategy.py:96 tests the negation) *)
TimeoutElapsed(t, last, timeout) == t - last >= timeout

(* a successful probe leaves the circuit HALF_OPEN *)
OnSuccessKeep(state) == state

(* retry_handler.py:143-144, failover_strategy.py:112-113 *)
OnSuccess(state) == IF state = "HALF_OPEN" THEN "CLOSED" ELSE state

(* a success leaves the failure count alone *)
CountKept(count) == count

(* retry_handler.py:145, failover_strategy.py:114 *)
CountAfterSuccess(count) == 0

(* the loop never recognises its last attempt *)
LastAttemptNever(attempt, max_retries) == FALSE

(* the loop gives up one attempt early *)
LastAttemptEarly(attempt, max_retries) == attempt + 1 >= max_retries

(* retry_handler.py:165 *)
LastAttempt(attempt, max_retries) == attempt = max_retries

(* the registry is never consulted *)
HasNoFallback(handlers, key) == FALSE

(* failover_strategy.py:98 and :133, `key in self.fallback_handlers` *)
HasFallback(handlers, key) == key \in handlers

(* the fallback's error always reaches the caller *)
FallbackFailedRaises(e, fb_error) == Propagated(fb_error, "fallback")

(* failover_strategy.py:134-140: the fallback raised fb_error after func raised e:
   an Exception is logged and the bare `raise` re-raises e; anything else
   leaves the handler as it is *)
FallbackFailed(e, fb_error) ==
  IF IsException(fb_error) THEN Propagated(e, "op") ELSE Propagated(fb_error, "fallback")

(* the three RetryHandlerError raised by retry: lines 129, 158, 166 *)
CircuitOpenError == RetryHandlerError("Circuit is open", 0, "WARNING", "")
CircuitOpenedError(count, e) ==
  RetryHandlerError("Circuit breaker opened after", count, "CRITICAL", e)
ExhaustedError(max_retries, e) == RetryHandlerError("Failed after", max_retries, "ERROR", e)

(* the last attempt is looked at before the threshold *)
FailureSignalExhaustFirst(tripped, last, count, max_retries, e) ==
  IF last THEN ExhaustedError(max_retries, e) ELSE CircuitOpenedError(count, e)

(* retry_handler.py:153-170: what a retryable failure that ends the call raises:
   the threshold is looked at before the last attempt *)
FailureSignal(tripped, last, count, max_retries, e) ==
  IF tripped THEN CircuitOpenedError(count, e) ELSE ExhaustedError(max_retries, e)

(* the delay is computed for the attempt to come *)
DelayAttemptNext(attempt) == attempt + 1

(* retry_handler.py:173, self._calculate_delay(attempt) *)
DelayAttempt(attempt) == attempt

(* the ticks the sleep after a caller's current attempt can last *)
BackoffTicks(attempt) ==
  SleepTicks(config.strategy, config.jitter, DelayAttempt(Max(1, attempt)))

(* the sleep is cut short *)
SleepOverAtOnce(t, wake_at) == TRUE

(* retry_handler.py:182, await asyncio.sleep(delay) returns *)
SleepOver(t, wake_at) == t >= wake_at

(* every wrapped function shares one circuit *)
SharedKey(func) == "a"

(* failover_strategy.py:84, key = func.__name__ *)
CircuitKey(func) == func

(* reset_circuit(key) leaves the failure count *)
ResetCountKept(count) == count

(* failover_strategy.py:151, self.failures[key] = 0 *)
ResetCount(count) == 0

(* reset_circuit(key) forgets the last failure *)
ResetTimeCleared(t) == None

(* failover_strategy.py:149-151 assign nothing to last_failure_time[key] *)
ResetTime(t) == t

(* failover_strategy.py:149-151 applied to one circuit *)
ResetOf(snap) ==
  [state |-> "CLOSED", count |-> ResetCount(snap.count), time |-> ResetTime(snap.time)]

(* the lookup inserts a default entry *)
AfterSetDefault(states, key) ==
  [states EXCEPT ![key] = IF @ = "absent" THEN "CLOSED" ELSE @]

(* failover_strategy.py:166, self.circuit_state.get(key, CLOSED) inserts nothing *)
AfterGet(states, key) == states

(* --------------------------- RetryHandler.retry ------------------------ *)
RHSnap == [state |-> _circuit_state, count |-> _failure_count, time |-> _last_failure_time]

(* lines 120-140: circuit breaker check, then the first pass of the loop up to
   the invocation of func *)
RetryCall(c) ==
  /\ executor = "RetryHandler"
  /\ pc[c] = "idle"
  /\ LET open == _circuit_state = "OPEN"
         elapsed == TimeoutElapsed(now, _last_failure_time, ResetTimeout)
         admitted == ~open \/ elapsed
         st == IF open /\ elapsed THEN "HALF_OPEN" ELSE _circuit_state
         fr == [NoFrame EXCEPT !.entered_at = now, !.entry = RHSnap]
     IN  /\ _circuit_state' = st
         /\ IF ~admitted
            THEN /\ pc' = [pc EXCEPT ![c] = "done"]
                 /\ frame' = [frame EXCEPT ![c] = fr]
                 /\ outcome' = [outcome EXCEPT ![c] = CircuitOpenError]
            ELSE IF config.max_retries >= 1
            THEN /\ pc' = [pc EXCEPT ![c] = "inflight"]
                 /\ frame' = [frame EXCEPT ![c] =
                       [fr EXCEPT !.attempt = 1, !.calls = 1,
                                  !.pre = [RHSnap EXCEPT !.state = st]]]
                 /\ outcome' = [outcome EXCEPT ![c] = NoOutcome]
            ELSE /\ pc' = [pc EXCEPT ![c] = "done"]
                 /\ frame' = [frame EXCEPT ![c] = fr]
                 /\ outcome' = [outcome EXCEPT ![c] = Returned("None")]
  /\ UNCHANGED <<executor, calc, now, config, _failure_count, _last_failure_time, foVars, streak,
                 admin>>

(* lines 142-182: the attempt's result arrives: r is "ok" or the class of the
   exception func raised; ticks is the length of the sleep that follows *)
RetryOutcome(c, r, ticks) ==
  /\ executor = "RetryHandler"
  /\ pc[c] = "inflight"
  /\ IF r = "ok"
     THEN /\ _circuit_state' = OnSuccess(_circuit_state)
          /\ _failure_count' = CountAfterSuccess(_failure_count)
          /\ streak' = [streak EXCEPT ![NoKey] = 0]
          /\ pc' = [pc EXCEPT ![c] = "done"]
          /\ frame' = [frame EXCEPT ![c].err = ""]
          /\ outcome' = [outcome EXCEPT ![c] = Returned("result")]
          /\ UNCHANGED _last_failure_time
     ELSE IF Catches(config.retry_on, r)
     THEN LET count == _failure_count + 1
              tripped == ThresholdReached(count, config.threshold)
              last == LastAttempt(frame[c].attempt, config.max_retries)
          IN  /\ _failure_count' = count
              /\ streak' = [streak EXCEPT ![NoKey] = @ + 1]
              /\ _circuit_state' = IF tripped THEN "OPEN" ELSE _circuit_state
              /\ _last_failure_time' =
                    IF tripped THEN FailureTime(now, _last_failure_time)
                    ELSE _last_failure_time
              /\ pc' = [pc EXCEPT ![c] = IF tripped \/ last THEN "done" ELSE "sleeping"]
              /\ frame' = [frame EXCEPT ![c] =
                    IF tripped \/ last
                    THEN [@ EXCEPT !.err = r]
                    ELSE [@ EXCEPT !.err = r, !.sleeps = @ + 1, !.wake_at = now + ticks,
                                   !.waits = Append(@, ticks)]]
              /\ outcome' = [outcome EXCEPT ![c] =
                    IF tripped \/ last
                    THEN FailureSignal(tripped, last, count, config.max_retries, r)
                    ELSE @]
     ELSE /\ pc' = [pc EXCEPT ![c] = "done"]
          /\ frame' = [frame EXCEPT ![c].err = r]
          /\ outcome' = [outcome EXCEPT ![c] = Propagated(r, "op")]
          /\ UNCHANGED <<rhVars, streak>>
  /\ UNCHANGED <<executor, calc, now, config, foVars, admin>>

(* the loop tries the same attempt again *)
NextAttemptSame(attempt) == attempt

(* line 134: range(1, self._max_retries + 1) yields the next attempt *)
NextAttempt(attempt) == attempt + 1

(* line 182 resumes, line 134 advances the loop, lines 137-140 invoke func again *)
RetryWake(c) ==
  /\ executor = "RetryHandler"
  /\ pc[c] = "sleeping"
  /\ SleepOver(now, frame[c].wake_at)
  /\ pc' = [pc EXCEPT ![c] = "inflight"]
  /\ frame' = [frame EXCEPT ![c] =
        [@ EXCEPT !.attempt = NextAttempt(@), !.calls = @ + 1, !.pre = RHSnap,
                  !.elapsed = Append(@, now - (frame[c].wake_at
                                               - frame[c].waits[Len(frame[c].waits)]))]]
  /\ UNCHANGED <<executor, calc, now, config, rhVars, foVars, outcome, streak, admin>>

(* the sleep sits inside the try, and the cancellation is counted as a failure *)
CancelCountedAsFailure(count) == count + 1

(* retry_handler.py:182 is in the except clause, outside the try of lines
   135-147: a CancelledError raised by the sleep reaches no handler of retry *)
CancelCounted(count) == count

(* line 182: the task running retry is cancelled while it awaits the sleep;
   asyncio.sleep raises CancelledError, which leaves retry as it is *)
RetryCancel(c) ==
  /\ executor = "RetryHandler"
  /\ pc[c] = "sleeping"
  /\ _failure_count' = CancelCounted(_failure_count)
  /\ pc' = [pc EXCEPT ![c] = "done"]
  /\ outcome' = [outcome EXCEPT ![c] = Propagated("CancelledError", "sleep")]
  /\ UNCHANGED <<executor, calc, now, config, _circuit_state, _last_failure_time, foVars,
                 frame, streak, admin>>

(* ---------------------- FailoverStrategy.decorator ---------------------- *)
FOSnap(key) ==
  [state |-> circuit_state[key], count |-> failures[key], time |-> last_failure_time[key]]

(* self.last_failure_time.get(key, 0), line 96 *)
LastFailureOrZero(key) == IF last_failure_time[key] = None THEN 0 ELSE last_failure_time[key]

(* lines 84-109: wrapper entry: lazy creation of the key, circuit check, then
   either the fallback, a RuntimeError, or the invocation of func *)
Wrapper(c, func) ==
  /\ executor = "FailoverStrategy"
  /\ pc[c] = "idle"
  /\ LET key == CircuitKey(func)
         fresh == circuit_state[key] = "absent"
         st0 == IF fresh THEN "CLOSED" ELSE circuit_state[key]
         f0 == IF fresh THEN 0 ELSE failures[key]
         open == st0 = "OPEN"
         elapsed == TimeoutElapsed(now, LastFailureOrZero(key), ResetTimeout)
         st == IF open /\ elapsed THEN "HALF_OPEN" ELSE st0
         snap == [state |-> st, count |-> f0, time |-> last_failure_time[key]]
         fr == [NoFrame EXCEPT !.func = func, !.key = key, !.current_time = now,
                               !.entered_at = now, !.entry = FOSnap(key), !.pre = snap,
                               !.after = IF admin.op = "reset" /\ admin.key = func
                                         THEN admin.before[func] ELSE NoSnap]
     IN  /\ circuit_state' = [circuit_state EXCEPT ![key] = st]
         /\ failures' = [failures EXCEPT ![key] = f0]
         /\ IF open /\ ~elapsed
            THEN IF HasFallback(fallback_handlers, key)
                 THEN /\ pc' = [pc EXCEPT ![c] = "fallback_open"]
                      /\ frame' = [frame EXCEPT ![c] = [fr EXCEPT !.fb_calls = 1]]
                      /\ outcome' = [outcome EXCEPT ![c] = NoOutcome]
                 ELSE /\ pc' = [pc EXCEPT ![c] = "done"]
                      /\ frame' = [frame EXCEPT ![c] = fr]
                      /\ outcome' = [outcome EXCEPT ![c] = RuntimeError("Circuit breaker open")]
            ELSE /\ pc' = [pc EXCEPT ![c] = "inflight"]
                 /\ frame' = [frame EXCEPT ![c] =
                       [fr EXCEPT !.attempt = 1, !.calls = 1]]
                 /\ outcome' = [outcome EXCEPT ![c] = NoOutcome]
  /\ admin' = NoAdmin
  /\ UNCHANGED <<executor, calc, now, config, rhVars, last_failure_time, fallback_handlers, streak>>

(* lines 118-140 up to the fallback's invocation: the failure r of func is
   counted on top of the count read, the circuit opens at max_failures, and
   the call goes on to the fallback or ends with r *)
RecordFailure(c, r, read) ==
  LET key == frame[c].key
      count == read + 1
      tripped == ThresholdReached(count, MaxFailures)
      fb == HasFallback(fallback_handlers, key)
  IN  /\ failures' = [failures EXCEPT ![key] = count]
      /\ last_failure_time' =
            [last_failure_time EXCEPT ![key] = FailureTime(frame[c].current_time, @)]
      /\ streak' = [streak EXCEPT ![key] = @ + 1]
      /\ circuit_state' = [circuit_state EXCEPT ![key] = IF tripped THEN "OPEN" ELSE @]
      /\ pc' = [pc EXCEPT ![c] = IF fb THEN "fallback_failed" ELSE "done"]
      /\ frame' = [frame EXCEPT ![c] =
            [@ EXCEPT !.err = r, !.fb_calls = IF fb THEN @ + 1 ELSE @]]
      /\ outcome' = [outcome EXCEPT ![c] = IF fb THEN @ ELSE Propagated(r, "op")]

(* lines 110-140 up to the fallback's invocation: r is "ok" or the class of the
   exception func raised *)
WrapperOutcome(c, r) ==
  /\ executor = "FailoverStrategy"
  /\ pc[c] = "inflight"
  /\ LET key == frame[c].key
     IN  IF r = "ok"
         THEN /\ circuit_state' = [circuit_state EXCEPT ![key] = OnSuccess(@)]
              /\ failures' = [failures EXCEPT ![key] = CountAfterSuccess(@)]
              /\ streak' = [streak EXCEPT ![key] = 0]
              /\ pc' = [pc EXCEPT ![c] = "done"]
              /\ frame' = [frame EXCEPT ![c].err = ""]
              /\ outcome' = [outcome EXCEPT ![c] = Returned("result")]
              /\ UNCHANGED last_failure_time
         ELSE IF IsException(r)
         THEN RecordFailure(c, r, failures[key])
         ELSE /\ pc' = [pc EXCEPT ![c] = "done"]
              /\ frame' = [frame EXCEPT ![c].err = r]
              /\ outcome' = [outcome EXCEPT ![c] = Propagated(r, "op")]
              /\ UNCHANGED <<failures, last_failure_time, circuit_state, streak>>
  /\ UNCHANGED <<executor, calc, now, config, rhVars, fallback_handlers, admin>>

(* the fallback's success is taken for a success of the call *)
CountAfterFallbackReset(count) == 0

(* failover_strategy.py:100 and 135: the wrapper returns the fallback's
   result at once and assigns nothing to self.failures[key] *)
CountAfterFallback(count) == count

(* lines 100 and 134-140: the fallback handler returns or raises r *)
FallbackOutcome(c, r) ==
  /\ executor = "FailoverStrategy"
  /\ pc[c] \in {"fallback_open", "fallback_failed"}
  /\ pc' = [pc EXCEPT ![c] = "done"]
  /\ outcome' = [outcome EXCEPT ![c] =
        IF r = "ok"
        THEN Returned("fallback_result")
        ELSE IF pc[c] = "fallback_open"
        THEN Propagated(r, "fallback")
        ELSE FallbackFailed(frame[c].err, r)]
  /\ frame' = [frame EXCEPT ![c].fb_err = IF r = "ok" THEN "" ELSE r]
  /\ failures' = [failures EXCEPT ![frame[c].key] =
        IF r = "ok" THEN CountAfterFallback(@) ELSE @]
  /\ UNCHANGED <<executor, calc, now, config, rhVars, last_failure_time, circuit_state,
                 fallback_handlers, streak, admin>>

(* lines 65-72 *)
register_fallback(key) ==
  /\ executor = "FailoverStrategy"
  /\ fallback_handlers' = fallback_handlers \cup {key}
  /\ UNCHANGED <<executor, calc, now, config, rhVars, failures, last_failure_time, circuit_state,
                 pc, frame, outcome, streak, admin>>

AllSnaps == [k \in Keys |-> FOSnap(k)]

(* lines 149-151: reset_circuit(key) *)
reset_circuit(key) ==
  /\ executor = "FailoverStrategy"
  /\ circuit_state' = [circuit_state EXCEPT ![key] = ResetOf(FOSnap(key)).state]
  /\ failures' = [failures EXCEPT ![key] = ResetOf(FOSnap(key)).count]
  /\ last_failure_time' = [last_failure_time EXCEPT ![key] = ResetOf(FOSnap(key)).time]
  /\ streak' = [streak EXCEPT ![key] = 0]
  /\ admin' = [NoAdmin EXCEPT !.op = "reset", !.key = key, !.before = AllSnaps]
  /\ UNCHANGED <<executor, calc, now, config, rhVars, fallback_handlers, pc, frame, outcome>>

(* lines 152-156: reset_circuit() *)
reset_all ==
  /\ executor = "FailoverStrategy"
  /\ circuit_state' = [k \in Keys |-> "absent"]
  /\ failures' = [k \in Keys |-> None]
  /\ last_failure_time' = [k \in Keys |-> None]
  /\ streak' = [k \in Keys \cup {NoKey} |-> 0]
  /\ admin' = [NoAdmin EXCEPT !.op = "reset_all", !.before = AllSnaps]
  /\ UNCHANGED <<executor, calc, now, config, rhVars, fallback_handlers, pc, frame, outcome>>

(* lines 159-170: the dictionary get_circuit_status returns *)
get_circuit_status(key) ==
  [state |-> IF circuit_state[key] = "absent" THEN "CLOSED" ELSE circuit_state[key],
   failures |-> IF failures[key] = None THEN 0 ELSE failures[key],
   last_failure_time |-> last_failure_time[key]]

(* lines 159-170: a caller asks for the status of key *)
InspectStatus(key) ==
  /\ executor = "FailoverStrategy"
  /\ circuit_state' = AfterGet(circuit_state, key)
  /\ admin' = [NoAdmin EXCEPT !.op = "status", !.key = key, !.before = AllSnaps,
                              !.report = get_circuit_status(key)]
  /\ UNCHANGED <<executor, calc, now, config, rhVars, failures, last_failure_time,
                 fallback_handlers, pc, frame, outcome, streak>>

(* the caller takes the result or the exception; the call's frame is gone *)
Return(c) ==
  /\ pc[c] = "done"
  /\ pc' = [pc EXCEPT ![c] = "idle"]
  /\ frame' = [frame EXCEPT ![c] = NoFrame]
  /\ outcome' = [outcome EXCEPT ![c] = NoOutcome]
  /\ UNCHANGED <<executor, calc, now, config, rhVars, foVars, streak, admin>>

(* time.time() advances *)
Tick ==
  /\ now < MaxTime
  /\ now' = now + 1
  /\ UNCHANGED <<executor, calc, config, rhVars, foVars, pc, frame, outcome, streak, admin>>

Idle == \A c \in Callers : pc[c] = "idle"

(* the caller of the sequential specification *)
SeqCallers == {CHOOSE c \in Callers : TRUE}

(* one call at a time: a call starts when no other call is under way, and the
   registry and the circuits are administered between calls *)
Next ==
  \/ \E c \in SeqCallers : OthersIdle(c) /\ RetryCall(c)
  \/ \E c \in SeqCallers : \E r \in {"ok"} \cup OpErrors :
       \E ticks \in BackoffTicks(frame[c].attempt) : RetryOutcome(c, r, ticks)
  \/ \E c \in SeqCallers : RetryWake(c)
  \/ \E c \in SeqCallers : RetryCancel(c)
  \/ \E c \in SeqCallers : \E func \in Keys : OthersIdle(c) /\ Wrapper(c, func)
  \/ \E c \in SeqCallers : \E r \in {"ok", "ValueError", "KeyboardInterrupt"} :
       WrapperOutcome(c, r)
  \/ \E c \in SeqCallers : \E r \in {"ok"} \cup FallbackErrors : FallbackOutcome(c, r)
  \/ \E key \in Keys : Idle /\ register_fallback(key)
  \/ \E key \in Keys : Idle /\ reset_circuit(key)
  \/ Idle /\ reset_all
  \/ \E key \in Keys : Idle /\ InspectStatus(key)
  \/ \E c \in SeqCallers : Return(c)
  \/ Tick

Spec == Init /\ [][Next]_vars

(* ------------------ callers that run at the same time ------------------- *)
(* line 120 in a thread, first half of self.failures[key] += 1: func has
   raised r and the count is read *)
WrapperRaised(c, r) ==
  /\ executor = "FailoverStrategy"
  /\ pc[c] = "inflight"
  /\ IsException(r)
  /\ pc' = [pc EXCEPT ![c] = "counting"]
  /\ frame' = [frame EXCEPT ![c] = [@ EXCEPT !.err = r, !.read = failures[frame[c].key]]]
  /\ UNCHANGED <<executor, calc, now, config, rhVars, foVars, outcome, streak, admin>>

(* lines 120-140 in a thread, from the second half of
   self.failures[key] += 1: the count read, plus one, is stored *)
WrapperRecord(c) ==
  /\ executor = "FailoverStrategy"
  /\ pc[c] = "counting"
  /\ RecordFailure(c, frame[c].err, frame[c].read)
  /\ UNCHANGED <<executor, calc, now, config, rhVars, fallback_handlers, admin>>

(* the constructor arguments of the handler the concurrent callers share *)
ConcConfigs ==
  {cf \in Configs : /\ cf.strategy = "CONSTANT"
                    /\ cf.jitter = 0
                    /\ cf.retry_on = "Exception"
                    /\ cf.max_retries <= 2
                    /\ cf.threshold <= 2}

(* the one wrapped function the concurrent callers all call *)
ConcKeys == {CHOOSE k \in Keys : TRUE}

InitConc ==
  /\ Init
  /\ executor = "RetryHandler" => config \in ConcConfigs

(* coroutines of one event loop sharing a RetryHandler, which run from one
   await to the next, or threads sharing a FailoverStrategy, which can be
   switched between the read and the write of the failure count; no fallback
   is registered *)
NextConc ==
  \/ \E c \in Callers : RetryCall(c)
  \/ \E c \in Callers : \E r \in {"ok", "ValueError", "KeyboardInterrupt"} :
       \E ticks \in BackoffTicks(frame[c].attempt) : RetryOutcome(c, r, ticks)
  \/ \E c \in Callers : RetryWake(c)
  \/ \E c \in Callers : \E func \in ConcKeys : Wrapper(c, func)
  \/ \E c \in Callers : \E r \in {"ok", "KeyboardInterrupt"} : WrapperOutcome(c, r)
  \/ \E c \in Callers : WrapperRaised(c, "ValueError")
  \/ \E c \in Callers : WrapperRecord(c)
  \/ \E c \in Callers : Return(c)
  \/ Tick

SpecConc == InitConc /\ [][NextConc]_vars

(* ------------------------ RetryHandler.decorator ------------------------ *)
(* lines 71-73: the circuit of a handler just constructed *)
FreshSnap == [state |-> "CLOSED", count |-> 0, time |-> None]

(* lines 201-208: a call of a decorated function: the wrapper constructs a
   RetryHandler of its own, which takes max_retries and backoff_strategy from
   the decorating handler and the constructor's defaults for the rest, and
   awaits its retry, which finds the new handler's circuit and goes on to the
   first invocation of the function; the handler variables are those of the
   handler serving the call; calls are followed up to MaxThreshold failures
   in a row *)
DecoratedCall(c) ==
  /\ executor = "RetryHandler"
  /\ pc[c] = "idle"
  /\ streak[NoKey] < MaxThreshold
  /\ config' = [config EXCEPT !.threshold = DefaultThreshold, !.retry_on = "Exception",
                              !.jitter = Jitter]
  /\ _circuit_state' = FreshSnap.state
  /\ _failure_count' = FreshSnap.count
  /\ _last_failure_time' = FreshSnap.time
  /\ pc' = [pc EXCEPT ![c] = "inflight"]
  /\ frame' = [frame EXCEPT ![c] =
        [NoFrame EXCEPT !.entered_at = now, !.entry = FreshSnap, !.attempt = 1,
                        !.calls = 1, !.pre = FreshSnap]]
  /\ outcome' = [outcome EXCEPT ![c] = NoOutcome]
  /\ UNCHANGED <<executor, calc, now, foVars, streak, admin>>

InitDecorator ==
  /\ Init
  /\ executor = "RetryHandler"

(* calls of one decorated function, one after the other *)
NextDecorator ==
  \/ \E c \in SeqCallers : DecoratedCall(c)
  \/ \E c \in SeqCallers : \E r \in {"ok"} \cup OpErrors :
       \E ticks \in BackoffTicks(frame[c].attempt) : RetryOutcome(c, r, ticks)
  \/ \E c \in SeqCallers : RetryWake(c)
  \/ \E c \in SeqCallers : Return(c)
  \/ Tick

SpecDecorator == InitDecorator /\ [][NextDecorator]_vars

(* ------------------- _calculate_delay on its own ------------------------ *)
(* base_delay, max_delay and jitter of the handlers looked at, in 1/Scale *)
DelayBases == {0, Scale \div 2, BaseDelay * Scale}
DelayLimits == {0, Scale, MaxDelay * Scale, MaxDelay * Scale + Scale \div 2}
JitterFractions == {0, Jitter, Scale \div 2, Scale - 1}

InitDelay ==
  /\ Init
  /\ executor = "RetryHandler"
  /\ config = CHOOSE cf \in Configs : TRUE

(* a handler is constructed with its delay settings (__init__, lines 62-66)
   and retry is about to sleep after one of its attempts *)
Configure ==
  /\ calc.strategy = ""
  /\ \E strategy \in RetryStrategy, base_delay \in DelayBases,
        max_delay \in DelayLimits, jitter \in JitterFractions, attempt \in 1..MaxRetries :
       calc' = [NoCalc EXCEPT !.strategy = strategy, !.base_delay = base_delay,
                              !.max_delay = max_delay, !.jitter = jitter,
                              !.attempt = attempt]
  /\ UNCHANGED <<executor, now, config, rhVars, foVars, pc, frame, outcome, streak, admin>>

(* delay = self._calculate_delay(attempt) *)
Calculate ==
  /\ calc.strategy # ""
  /\ calc.delay = None
  /\ \E delay \in DelaysOf(calc.strategy, calc.base_delay, calc.max_delay, calc.jitter,
                            calc.attempt) :
       calc' = [calc EXCEPT !.delay = delay]
  /\ UNCHANGED <<executor, now, config, rhVars, foVars, pc, frame, outcome, streak, admin>>

NextDelay == Configure \/ Calculate

SpecDelay == InitDelay /\ [][NextDelay]_vars

TypeOK ==
  /\ executor \in {"RetryHandler", "FailoverStrategy"}
  /\ now \in 0..MaxTime
  /\ _circuit_state \in {"CLOSED", "OPEN", "HALF_OPEN"}
  /\ \A k \in Keys : circuit_state[k] \in {"absent", "CLOSED", "OPEN", "HALF_OPEN"}

(* ------------------------ vocabulary of the claims ---------------------- *)
IsRH == executor = "RetryHandler"
IsFO == executor = "FailoverStrategy"

(* the circuit a caller's call works on, as it is now *)
CircuitOf(c) == IF IsRH THEN RHSnap ELSE FOSnap(frame[c].key)

Active(c) == pc[c] # "idle"
SinceLastFailure(c) ==
  frame[c].entered_at - (IF frame[c].entry.time = None THEN 0 ELSE frame[c].entry.time)
EnteredOpen(c) == Active(c) /\ frame[c].entry.state = "OPEN"
EnteredBlocked(c) == EnteredOpen(c) /\ SinceLastFailure(c) < ResetTimeout
EnteredProbe(c) == EnteredOpen(c) /\ SinceLastFailure(c) >= ResetTimeout
Ended(c) == pc[c] = "done"
Succeeded(c) == Ended(c) /\ outcome[c] = Returned("result")

(* C1: a call that starts while its circuit is OPEN and less than reset_timeout
   after last_failure_time never invokes the operation, never sleeps and never
   waits on it; and the operation is never in flight on an OPEN circuit *)
C1_FailFastWhileOpen ==
  \A c \in Callers :
    /\ EnteredBlocked(c) =>
         /\ frame[c].calls = 0
         /\ pc[c] \in {"done", "fallback_open"}
         /\ CircuitOf(c).state = "OPEN"
    /\ pc[c] \in {"inflight", "sleeping"} => CircuitOf(c).state # "OPEN"

C1_Witness ==
  \E c \in Callers :
    /\ IsRH /\ Ended(c) /\ EnteredBlocked(c)
    /\ frame[c].calls = 0
    /\ outcome[c] = CircuitOpenError
    /\ now > frame[c].entry.time

(* C2: an OPEN circuit has a last_failure_time and a failure count at or above
   the failure threshold *)
C2_OpenInvariant ==
  /\ _circuit_state = "OPEN" =>
       _last_failure_time # None /\ _failure_count >= config.threshold
  /\ \A k \in Keys :
       circuit_state[k] = "OPEN" =>
         last_failure_time[k] # None /\ failures[k] >= MaxFailures

C2_Witness ==
  \E k \in Keys :
    /\ IsFO /\ circuit_state[k] = "OPEN"
    /\ failures[k] > MaxFailures
    /\ last_failure_time[k] >= ResetTimeout

(* C3: one call invokes the operation at most max_attempts times: max_retries
   in RetryHandler.retry, once in the FailoverStrategy wrapper *)
C3_AtMostMaxAttempts ==
  \A c \in Callers :
    /\ IsRH => frame[c].calls <= config.max_retries
    /\ IsFO => frame[c].calls <= 1

C3_Witness ==
  \E c \in Callers :
    /\ IsRH /\ Ended(c)
    /\ config.max_retries >= 2
    /\ frame[c].calls = config.max_retries
    /\ frame[c].sleeps = config.max_retries - 1

(* C4: with streak the number of retryable failures since the last success or
   reset, the circuit is CLOSED while streak < failure_threshold and not CLOSED
   from the failure that brings streak to the threshold; the call in which
   the circuit opens ends there, its remaining attempts never run *)
C4_CircuitTrip ==
  /\ IsRH =>
       /\ streak[NoKey] < config.threshold => _circuit_state = "CLOSED"
       /\ streak[NoKey] >= config.threshold => _circuit_state # "CLOSED"
       /\ \A c \in Callers :
            Active(c) /\ frame[c].entry.state = "CLOSED" =>
              /\ pc[c] \in {"inflight", "sleeping"} => streak[NoKey] < config.threshold
              /\ streak[NoKey] >= config.threshold =>
                   /\ streak[NoKey] = config.threshold
                   /\ _circuit_state = "OPEN"
                   /\ frame[c].calls = config.threshold - frame[c].entry.count
  /\ IsFO =>
       \A k \in Keys :
         /\ streak[k] < MaxFailures => circuit_state[k] \in {"absent", "CLOSED"}
         /\ streak[k] >= MaxFailures => circuit_state[k] \in {"OPEN", "HALF_OPEN"}
         /\ \A c \in Callers :
              /\ Active(c) /\ frame[c].key = k
              /\ frame[c].entry.state \in {"absent", "CLOSED"}
              /\ streak[k] >= MaxFailures
              => streak[k] = MaxFailures /\ circuit_state[k] = "OPEN"

C4_Witness ==
  \E c \in Callers :
    /\ IsRH /\ Ended(c)
    /\ frame[c].entry.state = "CLOSED"
    /\ frame[c].entry.count > 0
    /\ frame[c].calls >= 2
    /\ frame[c].calls < config.max_retries
    /\ streak[NoKey] = config.threshold
    /\ _circuit_state = "OPEN"

(* C5: a call that starts on an OPEN circuit whose reset_timeout has elapsed
   invokes the operation exactly once; after a success the circuit is CLOSED
   with count 0, after a retryable failure it is OPEN again and the call has
   made no further attempt *)
C5_HalfOpenRecovery ==
  \A c \in Callers :
    EnteredProbe(c) =>
      /\ frame[c].calls = 1
      /\ frame[c].sleeps = 0
      /\ pc[c] # "sleeping"
      /\ pc[c] = "inflight" => CircuitOf(c).state = "HALF_OPEN"
      /\ Succeeded(c) => CircuitOf(c).state = "CLOSED" /\ CircuitOf(c).count = 0
      /\ pc[c] # "inflight" /\ frame[c].err \in {"ValueError"} =>
           /\ CircuitOf(c).state = "OPEN"
           /\ CircuitOf(c).time = frame[c].entered_at \/ IsRH

C5_Witness ==
  \E c \in Callers :
    /\ IsRH /\ Ended(c) /\ EnteredProbe(c)
    /\ config.max_retries >= 2
    /\ frame[c].err = "ValueError"
    /\ frame[c].calls = 1
    /\ _circuit_state = "OPEN"

(* C6: when a call ends with the operation's own result, the failure count of
   its circuit is 0 *)
C6_SuccessClearsCount ==
  \A c \in Callers : Succeeded(c) => CircuitOf(c).count = 0

C6_Witness ==
  \E c \in Callers :
    /\ IsRH /\ Succeeded(c)
    /\ frame[c].entry.count > 0
    /\ frame[c].calls >= 2
    /\ _failure_count = 0

(* C7: with retry_on configured, an error outside retry_on ends the call on
   the attempt that raised it: the caller gets that very error, no sleep
   follows, and state, count and last_failure_time are what they were before
   the attempt *)
C7_NonRetryableBypass ==
  \A c \in Callers :
    /\ IsRH /\ Active(c)
    /\ config.retry_on = "ValueError"
    /\ frame[c].err \in {"KeyError", "KeyboardInterrupt"}
    => /\ Ended(c)
       /\ outcome[c] = Propagated(frame[c].err, "op")
       /\ frame[c].sleeps = frame[c].calls - 1
       /\ RHSnap = frame[c].pre
       /\ frame[c].pre.state = "CLOSED" => _circuit_state = "CLOSED"

C7_Witness ==
  \E c \in Callers :
    /\ IsRH /\ Ended(c)
    /\ config.retry_on = "ValueError"
    /\ frame[c].err = "KeyError"
    /\ frame[c].calls = 1
    /\ _circuit_state = "CLOSED"
    /\ _failure_count > 0
    /\ outcome[c].type = "KeyError"

(* C8: with a fallback registered for the key, a call made while the circuit
   is OPEN within reset_timeout does not invoke the operation, leaves state,
   count and last_failure_time as they were, never raises the circuit-open
   RuntimeError, and returns the fallback's result when the fallback returns *)
C8_FallbackPrecedence ==
  \A c \in Callers :
    IsFO /\ EnteredBlocked(c) /\ frame[c].key \in fallback_handlers =>
      /\ frame[c].calls = 0
      /\ frame[c].fb_calls = 1
      /\ FOSnap(frame[c].key) = frame[c].entry
      /\ outcome[c].type # "RuntimeError"
      /\ Ended(c) /\ frame[c].fb_err = "" => outcome[c] = Returned("fallback_result")

C8_Witness ==
  \E c \in Callers :
    /\ IsFO /\ Ended(c) /\ EnteredBlocked(c)
    /\ frame[c].key \in fallback_handlers
    /\ outcome[c] = Returned("fallback_result")
    /\ frame[c].calls = 0

Exhausted(c) ==
  /\ IsRH /\ Ended(c)
  /\ frame[c].calls = config.max_retries
  /\ frame[c].err # "" /\ outcome[c].origin = "handler"
  /\ _failure_count < config.threshold

(* C10 as claimed: the exhausted call's error differs in type from the
   circuit-open error and carries the last error and the attempt count *)
C10_ExhaustedTyped ==
  \A c \in Callers :
    Exhausted(c) =>
      /\ outcome[c].type # CircuitOpenError.type
      /\ {"last_error", "attempts"} \subseteq outcome[c].context
      /\ _circuit_state = "CLOSED"
      /\ _failure_count = frame[c].entry.count + config.max_retries

(* C10 as amended: the exhausted call raises a RetryHandlerError, the type of
   the circuit-open errors too, told apart by severity ERROR and its message,
   which names max_retries; its context holds last_error only; the circuit is
   CLOSED and the count has grown by max_retries *)
C10_ExhaustedAmended ==
  \A c \in Callers :
    /\ Exhausted(c) =>
         /\ outcome[c].kind = "raise"
         /\ outcome[c].type = "RetryHandlerError"
         /\ outcome[c].type = CircuitOpenError.type
         /\ outcome[c].severity = "ERROR"
         /\ outcome[c].severity # CircuitOpenError.severity
         /\ outcome[c].message = "Failed after"
         /\ outcome[c].n = config.max_retries
         /\ outcome[c].context = {"last_error"}
         /\ outcome[c].last_error = frame[c].err
         /\ _circuit_state = "CLOSED"
         /\ _failure_count = frame[c].entry.count + config.max_retries
    /\ IsRH /\ Ended(c) /\ outcome[c].message = "Failed after" =>
         /\ frame[c].calls = config.max_retries
         /\ _failure_count < config.threshold

C10_Witness ==
  \E c \in Callers :
    /\ Exhausted(c)
    /\ config.max_retries = 3
    /\ config.threshold = 5
    /\ frame[c].entry.count = 0
    /\ _failure_count = 3
    /\ outcome[c].message = "Failed after"

(* a RetryHandler call whose latest attempt failed with an error retry_on names *)
LastFailedRetryably(c) ==
  /\ IsRH
  /\ pc[c] = "sleeping" \/ (Ended(c) /\ outcome[c].kind = "raise")
  /\ frame[c].calls >= 1
  /\ frame[c].err \in {"ValueError", "KeyError"}
  /\ config.retry_on = "Exception" \/ config.retry_on = frame[c].err

(* C11: in RetryHandler.retry the retryable failure that brings the count to
   the threshold sets the state to OPEN and ends the call at once with the
   "Circuit breaker opened" error, which carries the triggering error as its
   context; no sleep and no attempt follows, and this is so on the last
   allowed attempt too, where the error is not the "Failed after" one; a call
   never sleeps with the count at the threshold *)
C11_ThresholdSignalsOpen ==
  \A c \in Callers :
    /\ LastFailedRetryably(c) /\ frame[c].pre.count + 1 >= config.threshold =>
         /\ Ended(c)
         /\ _circuit_state = "OPEN"
         /\ _failure_count = frame[c].pre.count + 1
         /\ outcome[c].type = "RetryHandlerError"
         /\ outcome[c].message = "Circuit breaker opened after"
         /\ outcome[c].message # "Failed after"
         /\ outcome[c].n = _failure_count
         /\ outcome[c].context = {"last_error"}
         /\ outcome[c].last_error = frame[c].err
         /\ frame[c].sleeps = frame[c].calls - 1
         /\ frame[c].attempt = frame[c].calls
    /\ IsRH /\ pc[c] = "sleeping" => _failure_count < config.threshold

(* the threshold is reached on the last allowed attempt, after earlier failures *)
C11_Witness ==
  \E c \in Callers :
    /\ LastFailedRetryably(c)
    /\ frame[c].pre.count + 1 = config.threshold
    /\ frame[c].calls = config.max_retries
    /\ frame[c].calls >= 2
    /\ Ended(c)
    /\ outcome[c].message = "Circuit breaker opened after"

(* C12: a RetryHandler.retry call whose operation fails retryably k times and
   then succeeds returns the operation's value after k + 1 invocations, with
   k < max_retries and the count kept below the threshold; between the
   invocations it slept k times, the i-th sleep lasting the delay computed for
   attempt i and not less (1 then 2 ticks for EXPONENTIAL without jitter and
   k = 2); the value returned carries none of the errors, and the count is 0 *)
C12_RetryThenSucceed ==
  \A c \in Callers :
    IsRH /\ Succeeded(c) =>
      LET k == frame[c].calls - 1 IN
        /\ k >= 0
        /\ k < config.max_retries
        /\ k >= 1 => frame[c].entry.count + k < config.threshold
        /\ frame[c].sleeps = k
        /\ Len(frame[c].waits) = k
        /\ Len(frame[c].elapsed) = k
        /\ \A i \in 1..k :
             /\ frame[c].waits[i] \in SleepTicks(config.strategy, config.jitter, i)
             /\ frame[c].elapsed[i] >= frame[c].waits[i]
        /\ config.strategy = "EXPONENTIAL" /\ config.jitter = 0 /\ k = 2 =>
             frame[c].waits = <<1, 2>>
        /\ outcome[c].kind = "return"
        /\ outcome[c].type = ""
        /\ outcome[c].last_error = ""
        /\ outcome[c].context = {}
        /\ _failure_count = 0

(* two retryable failures, sleeps of 1 and 2 ticks, then the success *)
C12_Witness ==
  \E c \in Callers :
    /\ IsRH
    /\ Succeeded(c)
    /\ config.strategy = "EXPONENTIAL"
    /\ config.jitter = 0
    /\ frame[c].calls = 3
    /\ frame[c].waits = <<1, 2>>
    /\ frame[c].elapsed = <<1, 2>>

(* attempts of a caller's RetryHandler.retry call that have started and whose
   outcome is not known yet *)
AttemptsInFlight(c) ==
  frame[c].calls - Len(frame[c].waits)
    - (IF Ended(c) /\ frame[c].calls >= 1 /\ outcome[c].type # "CancelledError"
       THEN 1 ELSE 0)

(* C13: within one RetryHandler.retry call the attempts are strictly
   sequential: at most one attempt is in flight; attempt N + 1 has started
   only if attempts 1..N failed and the sleep after each of them lasted at
   least the delay computed for that attempt; while the call sleeps after
   attempt N, attempt N + 1 has not started *)
C13_AttemptsSequential ==
  \A c \in Callers :
    IsRH /\ Active(c) =>
      /\ frame[c].attempt = frame[c].calls
      /\ AttemptsInFlight(c) \in {0, 1}
      /\ AttemptsInFlight(c) = 1 <=> pc[c] = "inflight"
      /\ pc[c] = "inflight" =>
           /\ Len(frame[c].waits) = frame[c].calls - 1
           /\ Len(frame[c].elapsed) = frame[c].calls - 1
      /\ pc[c] = "sleeping" =>
           /\ Len(frame[c].waits) = frame[c].calls
           /\ Len(frame[c].elapsed) = frame[c].calls - 1
           /\ frame[c].err # ""
      /\ \A i \in 1..Len(frame[c].elapsed) :
           /\ frame[c].elapsed[i] >= frame[c].waits[i]
           /\ \E d \in _calculate_delay(config.strategy, config.jitter, i) :
                frame[c].elapsed[i] * Scale >= d

(* the third attempt is in flight after two sleeps, the second one longer than asked *)
C13_Witness ==
  \E c \in Callers :
    /\ IsRH
    /\ pc[c] = "inflight"
    /\ frame[c].calls = 3
    /\ Len(frame[c].elapsed) = 2
    /\ frame[c].elapsed[2] > frame[c].waits[2]

(* the keys whose state, failure count or last_failure_time a step changes *)
TouchedKeys == {k \in Keys : FOSnap(k)' # FOSnap(k)}

(* C14: in FailoverStrategy every step of a call for a function (its start
   with or without rejection, the operation's outcome, the fallback's outcome)
   and reset_circuit(key) leave the state, the failure count and the
   last_failure_time of every other key unchanged; a call for a function
   whose own circuit is not OPEN invokes the operation whatever the state of
   the other circuits *)
C14_PerKeyIndependence ==
  [][IsFO =>
       /\ \A c \in Callers :
            pc'[c] # pc[c] /\ pc'[c] # "idle" => TouchedKeys \subseteq {frame'[c].func}
       /\ admin'.op = "reset" /\ admin' # admin => TouchedKeys \subseteq {admin'.key}
       /\ \A c \in Callers :
            /\ pc[c] = "idle"
            /\ pc'[c] # "idle"
            /\ get_circuit_status(frame'[c].func).state # "OPEN"
            => pc'[c] = "inflight" /\ frame'[c].calls = 1]_vars

(* a call for b has failed and been counted while the circuit of a is OPEN
   within its timeout and keeps its own count and time *)
C14_Witness ==
  \E c \in Callers :
    /\ IsFO
    /\ Ended(c)
    /\ frame[c].func = "b"
    /\ frame[c].err = "ValueError"
    /\ failures["b"] = 1
    /\ last_failure_time["b"] = frame[c].current_time
    /\ circuit_state["a"] = "OPEN"
    /\ failures["a"] = MaxFailures
    /\ last_failure_time["a"] < last_failure_time["b"]
    /\ frame[c].entered_at - last_failure_time["a"] < ResetTimeout

(* C15: after reset_circuit(key), whatever the state it was called in, the
   key is CLOSED with failure count 0 and every other key is as it was; the
   next call for the key then invokes the operation, also when the circuit
   had been OPEN with less than reset_timeout elapsed; after reset_circuit()
   every key reports CLOSED with 0 failures *)
C15_Reset ==
  IsFO =>
    /\ admin.op = "reset" =>
         /\ circuit_state[admin.key] = "CLOSED"
         /\ failures[admin.key] = 0
         /\ get_circuit_status(admin.key).state = "CLOSED"
         /\ get_circuit_status(admin.key).failures = 0
         /\ \A k \in Keys \ {admin.key} : FOSnap(k) = admin.before[k]
    /\ admin.op = "reset_all" =>
         \A k \in Keys :
           /\ get_circuit_status(k).state = "CLOSED"
           /\ get_circuit_status(k).failures = 0
    /\ \A c \in Callers :
         Active(c) /\ frame[c].after # NoSnap =>
           /\ frame[c].entry.state = "CLOSED"
           /\ frame[c].entry.count = 0
           /\ frame[c].calls = 1
           /\ frame[c].fb_calls = 0 \/ pc[c] \in {"fallback_failed", "done"}
           /\ outcome[c] # RuntimeError("Circuit breaker open")

(* the operation is in flight in the first call after reset_circuit(key) on a
   circuit that was OPEN with less than reset_timeout elapsed *)
C15_Witness ==
  \E c \in Callers :
    /\ IsFO
    /\ pc[c] = "inflight"
    /\ frame[c].after.state = "OPEN"
    /\ frame[c].after.count >= MaxFailures
    /\ frame[c].entered_at - frame[c].after.time < ResetTimeout
    /\ frame[c].calls = 1

(* what get_circuit_status reports of a circuit that was as snap says *)
StatusOfSnap(snap) ==
  [state |-> IF snap.state = "absent" THEN "CLOSED" ELSE snap.state,
   failures |-> IF snap.count = None THEN 0 ELSE snap.count,
   last_failure_time |-> snap.time]

ClosedAndClean(snap) ==
  StatusOfSnap(snap).state = "CLOSED" /\ StatusOfSnap(snap).failures = 0

(* C16: reset_circuit(key) on a key that is CLOSED with zero failures changes
   nothing get_circuit_status reports of any key, and the call that follows
   starts from the state, count and last_failure_time it would have started
   from without the reset; a reset_circuit(key) right after a
   reset_circuit(key) changes nothing, and in every state resetting a key
   twice gives what resetting it once gives *)
C16_ResetIdempotent ==
  IsFO =>
    /\ admin.op = "reset" /\ ClosedAndClean(admin.before[admin.key]) =>
         \A k \in Keys : get_circuit_status(k) = StatusOfSnap(admin.before[k])
    /\ admin.op = "reset" => ResetOf(FOSnap(admin.key)) = FOSnap(admin.key)
    /\ \A k \in Keys : ResetOf(ResetOf(FOSnap(k))) = ResetOf(FOSnap(k))
    /\ \A c \in Callers :
         Active(c) /\ frame[c].after # NoSnap /\ ClosedAndClean(frame[c].after) =>
           /\ frame[c].pre.state = StatusOfSnap(frame[c].after).state
           /\ frame[c].pre.count = StatusOfSnap(frame[c].after).failures
           /\ frame[c].pre.time = StatusOfSnap(frame[c].after).last_failure_time

(* reset_circuit(key) has just run on a key that was CLOSED with zero failures
   and had a last_failure_time *)
C16_Witness ==
  /\ IsFO
  /\ admin.op = "reset"
  /\ admin.before[admin.key] = [state |-> "CLOSED", count |-> 0, time |-> 1]
  /\ get_circuit_status(admin.key).last_failure_time = 1

(* C17: get_circuit_status(key) changes the state, the failure count and the
   last_failure_time of no key and creates no entry: a key without entries
   has none afterwards; what it reports is the key's state, count and
   last_failure_time, and for a key without entries CLOSED, 0 failures and
   no last_failure_time *)
C17_StatusReadOnly ==
  IsFO /\ admin.op = "status" =>
    /\ \A k \in Keys : FOSnap(k) = admin.before[k]
    /\ admin.report = StatusOfSnap(admin.before[admin.key])
    /\ admin.before[admin.key].state = "absent" =>
         /\ admin.report.state = "CLOSED"
         /\ admin.report.failures = 0
         /\ admin.report.last_failure_time = None
         /\ circuit_state[admin.key] = "absent"
         /\ failures[admin.key] = None
         /\ last_failure_time[admin.key] = None

(* the status of a key never called has been asked for while the other
   key's circuit is OPEN *)
C17_Witness ==
  /\ IsFO
  /\ admin.op = "status"
  /\ admin.before[admin.key].state = "absent"
  /\ admin.report.state = "CLOSED"
  /\ \E k \in Keys \ {admin.key} : circuit_state[k] = "OPEN"

(* C18: no update of the failure count is lost when calls for one key fail
   at the same time: the count equals the number of failures recorded since
   the last success, and the circuit is no longer CLOSED once that number has
   reached the threshold; the first conjunct is RetryHandler with interleaved
   coroutines, the second FailoverStrategy with threads *)
C18_NoLostUpdates ==
  /\ IsRH =>
       /\ _failure_count = streak[NoKey]
       /\ streak[NoKey] >= config.threshold => _circuit_state # "CLOSED"
  /\ IsFO =>
       \A k \in Keys :
         circuit_state[k] # "absent" =>
           /\ failures[k] = streak[k]
           /\ streak[k] >= MaxFailures => circuit_state[k] # "CLOSED"

(* a caller starts a call in this step *)
Enters(c) == pc[c] = "idle" /\ pc'[c] # "idle"

(* the operation is in flight as the probe of a HALF_OPEN circuit: the
   caller's call found the circuit OPEN and moved it to HALF_OPEN *)
ProbeInFlight(d) ==
  /\ pc[d] = "inflight"
  /\ frame[d].entry.state = "OPEN"
  /\ frame[d].calls = 1
  /\ CircuitOf(d).state = "HALF_OPEN"

(* C19: while a circuit is HALF_OPEN and its probe is in flight, no call that
   starts on that circuit gets to invoke the operation *)
C19_OneTrialCall ==
  [][\A c \in Callers :
       /\ Enters(c)
       /\ \E d \in Callers \ {c} :
            ProbeInFlight(d) /\ (IsRH \/ frame'[c].key = frame[d].key)
       => frame'[c].calls = 0]_vars

(* C20: the move from OPEN to HALF_OPEN is lazy: a step in which time
   advances changes no circuit's state; a circuit becomes HALF_OPEN only in
   the step in which a call starts on it while it is OPEN with
   now - last_failure_time >= reset_timeout; a call that starts on an OPEN
   circuit is admitted as the probe if that much time has passed, exactly
   reset_timeout included, and is rejected without invoking the operation if
   less has passed *)
C20_LazyHalfOpen ==
  [][/\ now' # now => _circuit_state' = _circuit_state /\ circuit_state' = circuit_state
     /\ IsRH /\ _circuit_state' = "HALF_OPEN" /\ _circuit_state # "HALF_OPEN" =>
          /\ \E c \in Callers : Enters(c)
          /\ _circuit_state = "OPEN"
          /\ now - _last_failure_time >= ResetTimeout
     /\ \A k \in Keys :
          IsFO /\ circuit_state'[k] = "HALF_OPEN" /\ circuit_state[k] # "HALF_OPEN" =>
            /\ \E c \in Callers : Enters(c) /\ frame'[c].func = k
            /\ circuit_state[k] = "OPEN"
            /\ now - last_failure_time[k] >= ResetTimeout
     /\ \A c \in Callers :
          /\ IsRH /\ Enters(c) /\ _circuit_state = "OPEN" =>
               IF now - _last_failure_time >= ResetTimeout
               THEN _circuit_state' = "HALF_OPEN" /\ frame'[c].calls = 1
               ELSE _circuit_state' = "OPEN" /\ frame'[c].calls = 0 /\ pc'[c] = "done"
          /\ IsFO /\ Enters(c) /\ circuit_state[frame'[c].func] = "OPEN" =>
               IF now - last_failure_time[frame'[c].func] >= ResetTimeout
               THEN circuit_state'[frame'[c].func] = "HALF_OPEN" /\ frame'[c].calls = 1
               ELSE /\ circuit_state'[frame'[c].func] = "OPEN"
                    /\ frame'[c].calls = 0
                    /\ pc'[c] \in {"done", "fallback_open"}]_vars

(* a call that started exactly reset_timeout after the last failure has its
   probe in flight on the HALF_OPEN circuit *)
C20_Witness ==
  \E c \in Callers :
    /\ pc[c] = "inflight"
    /\ frame[c].entry.state = "OPEN"
    /\ frame[c].entered_at - frame[c].entry.time = ResetTimeout
    /\ CircuitOf(c).state = "HALF_OPEN"
    /\ now > frame[c].entered_at

(* a RetryHandler.retry call that ended because it was cancelled in a sleep *)
Cancelled(c) == IsRH /\ Ended(c) /\ outcome[c].type = "CancelledError"

(* C21: a RetryHandler.retry call cancelled while it sleeps between attempts
   ends with the CancelledError and starts no attempt after the sleep it was
   cancelled in; the count it leaves is the count it found plus one for each
   attempt that completed, all of which failed; the state is the one it
   found, and an OPEN circuit still has a last_failure_time and a count at or
   above the threshold *)
C21_CancelKeepsCircuit ==
  \A c \in Callers :
    Cancelled(c) =>
      /\ outcome[c].kind = "raise"
      /\ frame[c].calls >= 1
      /\ frame[c].calls = Len(frame[c].waits)
      /\ Len(frame[c].elapsed) = frame[c].calls - 1
      /\ frame[c].attempt = frame[c].calls
      /\ _failure_count = frame[c].entry.count + frame[c].calls
      /\ _failure_count = streak[NoKey]
      /\ _failure_count < config.threshold
      /\ _circuit_state = frame[c].entry.state
      /\ _circuit_state = "OPEN" =>
           _last_failure_time # None /\ _failure_count >= config.threshold

(* the call was cancelled in its second sleep, after two failed attempts *)
C21_Witness ==
  \E c \in Callers :
    /\ Cancelled(c)
    /\ frame[c].calls = 2
    /\ _failure_count = frame[c].entry.count + 2
    /\ now < frame[c].wake_at

(* the delay of LINEAR and EXPONENTIAL before the limit, as the strategies are
   documented: base_delay * attempt and base_delay * 2 ** (attempt - 1) *)
Unclamped(strategy, base_delay, attempt) ==
  IF strategy = "LINEAR" THEN base_delay * attempt ELSE base_delay * Pow(2, attempt - 1)

(* C22: for EXPONENTIAL and LINEAR with jitter 0 the delay of an attempt is
   not below the delay of any earlier attempt and not above the delay of the
   next one, and once the delay before the limit of this or an earlier
   attempt has reached max_delay the delay is max_delay *)
C22_BackoffMonotone ==
  /\ calc.strategy \in {"EXPONENTIAL", "LINEAR"}
  /\ calc.jitter = 0
  /\ calc.delay # None
  => /\ \A d \in DelaysOf(calc.strategy, calc.base_delay, calc.max_delay, calc.jitter,
                          calc.attempt + 1) : d >= calc.delay
     /\ \A a \in 1..(calc.attempt - 1) :
          \A d \in DelaysOf(calc.strategy, calc.base_delay, calc.max_delay, calc.jitter, a) :
            d <= calc.delay
     /\ (\E a \in 1..calc.attempt :
           Unclamped(calc.strategy, calc.base_delay, a) >= calc.max_delay)
        => calc.delay = calc.max_delay
     /\ (\A a \in 1..calc.attempt :
           Unclamped(calc.strategy, calc.base_delay, a) < calc.max_delay)
        => calc.delay = Unclamped(calc.strategy, calc.base_delay, calc.attempt)

(* EXPONENTIAL, base_delay 1, max_delay 2.5: the third attempt's delay is
   held at max_delay, below the 4 the strategy gives *)
C22_Witness ==
  /\ calc.strategy = "EXPONENTIAL"
  /\ calc.jitter = 0
  /\ calc.base_delay = BaseDelay * Scale
  /\ calc.attempt = 3
  /\ calc.delay = calc.max_delay
  /\ calc.max_delay > 2 * calc.base_delay
  /\ calc.max_delay < 4 * calc.base_delay

(* C23: for every strategy, attempt and setting with 0 <= jitter < 1 the
   delay _calculate_delay returns is at least 0 and at most
   max_delay * (1 + jitter); the jitter is a fraction of the delay already
   held to max_delay: the delay returned differs from min(strategy delay,
   max_delay) by at most that fraction of it *)
C23_DelayClamped ==
  calc.delay # None /\ calc.jitter >= 0 /\ calc.jitter < Scale =>
    LET limited == Min(StrategyDelay(calc.strategy, calc.base_delay, calc.attempt),
                       calc.max_delay)
    IN  /\ calc.delay >= 0
        /\ calc.delay * Scale <= calc.max_delay * (Scale + calc.jitter)
        /\ (calc.delay - limited) * Scale <= limited * calc.jitter
        /\ (limited - calc.delay) * Scale <= limited * calc.jitter

(* the jitter has lifted the delay of an attempt held to max_delay above max_delay *)
C23_Witness ==
  /\ calc.delay # None
  /\ calc.jitter > 0
  /\ StrategyDelay(calc.strategy, calc.base_delay, calc.attempt) > calc.max_delay
  /\ calc.max_delay > 0
  /\ calc.delay > calc.max_delay
  /\ (calc.delay + 1) * Scale > calc.max_delay * (Scale + calc.jitter)

(* the probe of a caller's call failed and the failure was counted *)
FailedProbe(c) ==
  /\ Ended(c)
  /\ EnteredProbe(c)
  /\ frame[c].calls = 1
  /\ IF IsRH THEN outcome[c].message = "Circuit breaker opened after"
             ELSE frame[c].err = "ValueError"

(* the threshold a caller's circuit opens at *)
ThresholdOf(c) == IF IsRH THEN config.threshold ELSE MaxFailures

(* C24: a HALF_OPEN probe whose failure is counted leaves the circuit OPEN
   with one more failure and with last_failure_time set to the time of the
   probe call (the time it failed at in RetryHandler, the time it started at
   in FailoverStrategy); a call that starts on a circuit re-opened by a
   failed probe less than reset_timeout after that time ends without
   invoking the operation, and a call that invokes it has started at least
   reset_timeout after that time *)
C24_FailedProbeReopens ==
  \A c \in Callers :
    /\ FailedProbe(c) =>
         /\ CircuitOf(c).state = "OPEN"
         /\ CircuitOf(c).count = frame[c].entry.count + 1
         /\ CircuitOf(c).count > ThresholdOf(c)
         /\ IsFO => CircuitOf(c).time = frame[c].entered_at
         /\ IsRH => CircuitOf(c).time >= frame[c].entered_at /\ CircuitOf(c).time <= now
         /\ CircuitOf(c).time >= frame[c].entry.time + ResetTimeout
    /\ Active(c) /\ frame[c].entry.state = "OPEN" /\ frame[c].entry.count > ThresholdOf(c) =>
         /\ SinceLastFailure(c) < ResetTimeout =>
              /\ frame[c].calls = 0
              /\ pc[c] \in {"done", "fallback_open"}
              /\ CircuitOf(c) = frame[c].entry
         /\ frame[c].calls >= 1 => SinceLastFailure(c) >= ResetTimeout

(* a call made one tick after a failed probe has been rejected *)
C24_Witness ==
  \E c \in Callers :
    /\ Ended(c)
    /\ frame[c].entry.state = "OPEN"
    /\ frame[c].entry.count > ThresholdOf(c)
    /\ frame[c].entry.time >= ResetTimeout
    /\ SinceLastFailure(c) = 1
    /\ frame[c].calls = 0

(* C25: with coroutines sharing one RetryHandler no attempt starts while the
   circuit is OPEN: the state a call finds when it invokes the operation,
   at its first attempt or after a sleep, is never OPEN *)
C25_NoAttemptWhileOpen ==
  \A c \in Callers :
    IsRH /\ Active(c) /\ frame[c].calls >= 1 => frame[c].pre.state # "OPEN"

(* C26: with calls and resets one after the other, a CLOSED circuit has a
   failure count below its threshold, and a circuit whose count is at or
   above the threshold is OPEN or HALF_OPEN; a FailoverStrategy key is taken
   as get_circuit_status reports it *)
C26_ClosedBelowThreshold ==
  /\ IsRH =>
       /\ config.threshold >= 1
       /\ _circuit_state = "CLOSED" => _failure_count < config.threshold
       /\ _failure_count >= config.threshold => _circuit_state \in {"OPEN", "HALF_OPEN"}
  /\ IsFO =>
       \A k \in Keys :
         /\ get_circuit_status(k).state = "CLOSED" =>
              get_circuit_status(k).failures < MaxFailures
         /\ get_circuit_status(k).failures >= MaxFailures =>
              get_circuit_status(k).state \in {"OPEN", "HALF_OPEN"}

(* a circuit that has been open and has recovered is CLOSED again, one
   failure short of its threshold *)
C26_Witness ==
  /\ IsRH
  /\ _circuit_state = "CLOSED"
  /\ _last_failure_time # None
  /\ config.threshold >= 2
  /\ _failure_count = config.threshold - 1

(* C27: a function wrapped with RetryHandler.decorator keeps its circuit
   across calls: the handler's count is the number of retryable failures
   since the last success, whichever call they happened in; with that number
   at the threshold the circuit is not CLOSED, and a call that starts less
   than reset_timeout after the circuit opened does not invoke the function *)
C27_DecoratorKeepsCircuit ==
  IsRH =>
    /\ _failure_count = streak[NoKey]
    /\ streak[NoKey] >= config.threshold => _circuit_state # "CLOSED"
    /\ \A c \in Callers :
         /\ Active(c) => frame[c].entry.count + frame[c].calls >= streak[NoKey]
         /\ EnteredBlocked(c) => frame[c].calls = 0

(* the operation of a caller's FailoverStrategy call raised an Exception and
   a fallback is registered for the key *)
PrimaryFailedWithFallback(c) ==
  /\ IsFO
  /\ pc[c] \in {"fallback_failed", "done"}
  /\ frame[c].calls = 1
  /\ frame[c].err = "ValueError"
  /\ frame[c].fb_calls = 1

(* C28: when the operation fails and a fallback is registered, the failure
   is counted and last_failure_time set to the call's time before the
   fallback runs, and with the count at max_failures the circuit is OPEN;
   they stay so when the fallback returns and the caller receives the
   fallback's result: the fallback's success does not reset the count *)
C28_AbsorbedFailureCounts ==
  \A c \in Callers :
    PrimaryFailedWithFallback(c) =>
      LET k == frame[c].key IN
        /\ failures[k] = frame[c].pre.count + 1
        /\ failures[k] = streak[k]
        /\ last_failure_time[k] = frame[c].current_time
        /\ failures[k] >= MaxFailures => circuit_state[k] = "OPEN"
        /\ failures[k] < MaxFailures => circuit_state[k] = frame[c].pre.state
        /\ Ended(c) /\ frame[c].fb_err = "" => outcome[c] = Returned("fallback_result")

(* the caller has received the fallback's result for the failure that opened
   the circuit *)
C28_Witness ==
  \E c \in Callers :
    /\ PrimaryFailedWithFallback(c)
    /\ Ended(c)
    /\ outcome[c] = Returned("fallback_result")
    /\ frame[c].pre.state = "CLOSED"
    /\ failures[frame[c].key] = MaxFailures
    /\ circuit_state[frame[c].key] = "OPEN"

(* ------------- an operation that recovers, called again and again ------- *)
(* the operation succeeds from this time on; it leaves reset_timeout to pass
   before the clock of the model stops *)
HealTime == MaxTime - ResetTimeout

(* lines 137-140 and failover_strategy.py:109: what an invocation of the
   operation can end with at time t *)
OpResults(t) == IF t < HealTime THEN {"ok"} \cup OpErrors ELSE {"ok"}

(* failover_strategy.py:109 *)
FuncResults(t) ==
  IF t < HealTime THEN {"ok", "ValueError", "KeyboardInterrupt"} ELSE {"ok"}

RetryResult(c) ==
  \E r \in OpResults(now) : \E ticks \in BackoffTicks(frame[c].attempt) :
    RetryOutcome(c, r, ticks)

WrapperResult(c) == \E r \in FuncResults(now) : WrapperOutcome(c, r)

FallbackResult(c) == \E r \in {"ok"} \cup FallbackErrors : FallbackOutcome(c, r)

NextLive ==
  \/ \E c \in SeqCallers : RetryCall(c)
  \/ \E c \in SeqCallers : RetryResult(c)
  \/ \E c \in SeqCallers : RetryWake(c)
  \/ \E c \in SeqCallers : \E func \in Keys : Wrapper(c, func)
  \/ \E c \in SeqCallers : WrapperResult(c)
  \/ \E c \in SeqCallers : FallbackResult(c)
  \/ \E key \in Keys : Idle /\ register_fallback(key)
  \/ \E c \in SeqCallers : Return(c)
  \/ Tick

(* time advances, every invocation and every sleep ends, the caller takes each
   result, and calls of the handler and of every decorated function keep being
   made *)
Fairness ==
  /\ WF_vars(Tick)
  /\ \A c \in SeqCallers :
       /\ SF_vars(RetryCall(c))
       /\ \A func \in Keys : SF_vars(Wrapper(c, func))
       /\ WF_vars(RetryResult(c))
       /\ WF_vars(RetryWake(c))
       /\ WF_vars(WrapperResult(c))
       /\ WF_vars(FallbackResult(c))
       /\ WF_vars(Return(c))

SpecLive == Init /\ [][NextLive]_vars /\ Fairness

(* the circuits of the executor: the handler's one circuit, or one per key *)
Circuits == IF IsRH THEN {NoKey} ELSE Keys
StateOf(k) == IF IsRH THEN _circuit_state ELSE circuit_state[k]
CountOf(k) == IF IsRH THEN _failure_count ELSE failures[k]
Tripped(k) == StateOf(k) \in {"OPEN", "HALF_OPEN"}
Recovered(k) == StateOf(k) = "CLOSED" /\ CountOf(k) = 0

(* C29: with time advancing, calls being made again and again and the
   operation succeeding from some time on, a circuit that is OPEN or HALF_OPEN
   eventually is CLOSED with failure count 0 and stays so from then on *)
C29_Recovery ==
  \A k \in Keys \cup {NoKey} :
    (k \in Circuits /\ Tripped(k)) ~> [](k \in Circuits /\ Recovered(k))

(* the trial call of an OPEN circuit has succeeded after the operation
   recovered, and the circuit is CLOSED with count 0 *)
C29_Witness ==
  \E c \in Callers :
    /\ EnteredProbe(c)
    /\ Succeeded(c)
    /\ now >= HealTime
    /\ frame[c].entry.count >= 1
    /\ CircuitOf(c).state = "CLOSED"
    /\ CircuitOf(c).count = 0

(* for how many more steps a call can go on: an invocation under way may be
   followed by a sleep and another invocation, up to max_retries in all; the
   wrapper's invocation may be followed by the fallback's *)
Rank(c) ==
  CASE pc[c] = "inflight" /\ IsRH -> 2 * (config.max_retries - frame[c].calls) + 2
    [] pc[c] = "sleeping" -> 2 * (config.max_retries - frame[c].calls) + 1
    [] pc[c] = "inflight" /\ IsFO -> 2
    [] pc[c] \in {"fallback_open", "fallback_failed"} -> 1
    [] OTHER -> 0

(* the longest sleep between two attempts, in ticks *)
LongestSleep == CeilDiv(MaxDelay * Scale + (MaxDelay * Scale * Jitter) \div Scale, Scale)

(* the step of a call that is under way *)
CallStep(c) == Active(c) /\ ~Ended(c) /\ <<pc[c], frame[c]>>' # <<pc[c], frame[c]>>

(* C30: a call to RetryHandler.retry invokes the operation at most max_retries
   times and sleeps at most max_retries - 1 times, a call to the
   FailoverStrategy wrapper invokes the operation and the fallback at most
   once each; while a call is under way it waits for an invocation that can
   end or for a sleep with a deadline, every step it takes brings it nearer
   to its end, and with max_retries >= 1 it ends with a returned result or a
   raised error *)
C30_Termination ==
  /\ [](\A c \in Callers :
          /\ IsRH => /\ frame[c].calls <= config.max_retries
                     /\ frame[c].sleeps <= config.max_retries - 1
                     /\ frame[c].sleeps <= frame[c].calls
                     /\ frame[c].fb_calls = 0
          /\ IsFO => /\ frame[c].calls <= 1
                     /\ frame[c].fb_calls <= 1
                     /\ frame[c].sleeps = 0
          /\ Active(c) /\ ~Ended(c) =>
               /\ Rank(c) \in 1..(2 * config.max_retries)
               /\ outcome[c] = NoOutcome
               /\ pc[c] = "sleeping" => frame[c].wake_at <= now + LongestSleep
               /\ pc[c] = "sleeping" /\ now >= frame[c].wake_at => ENABLED RetryWake(c)
               /\ pc[c] = "inflight" /\ IsRH =>
                    ENABLED (\E ticks \in BackoffTicks(frame[c].attempt) :
                               RetryOutcome(c, "ok", ticks))
               /\ pc[c] = "inflight" /\ IsFO => ENABLED WrapperOutcome(c, "ok")
               /\ pc[c] \in {"fallback_open", "fallback_failed"} =>
                    ENABLED FallbackOutcome(c, "ok")
          /\ Ended(c) /\ config.max_retries >= 1 =>
               \/ outcome[c].kind = "return"
                    /\ outcome[c].value \in {"result", "fallback_result"}
               \/ outcome[c].kind = "raise" /\ outcome[c].type # "")
  /\ [][\A c \in Callers : CallStep(c) => Rank(c)' < Rank(c)]_vars

(* a call ended with an error after max_retries invocations and
   max_retries - 1 sleeps *)
C30_Witness ==
  \E c \in Callers :
    /\ Ended(c)
    /\ IsRH
    /\ config.max_retries = MaxRetries
    /\ frame[c].calls = MaxRetries
    /\ frame[c].sleeps = MaxRetries - 1
    /\ outcome[c] = ExhaustedError(MaxRetries, frame[c].err)

====
